---- MODULE Spec2Model ----
(***************************************************************************)
(* Model of the Gizli secure messenger core: SecureCrypto (the double      *)
(* ratchet session engine) and the parts of SecureP2PNetwork that drive    *)
(* the session life cycle.  Source: src/src/vite-env.d.ts.                 *)
(*                                                                         *)
(* Byte arrays are symbolic terms (a free algebra: hash, KDF, AEAD and     *)
(* random draws never collide).  Every Uint8Array that the code mutates in *)
(* place (secureZero) lives in a heap and is referred to by its address,   *)
(* so that aliasing between sessions and callers is part of the model.     *)
(***************************************************************************)
EXTENDS Integers, Sequences, FiniteSets, TLC

(* ------------------------------ bounds --------------------------------- *)
MaxSessions == 2
MaxOps == 5
MaxRatchets == 1
MaxDetach == 1
MaxLen == 2

(* ------------------------- symbolic byte arrays ------------------------ *)
\* A byte array: tag names the constructor, len is its length in bytes,
\* id distinguishes random draws (and holds the value of a literal byte, the
\* offset of a slice, the number of an HKDF block), args are the byte arrays
\* it was computed from.
B(tag, len, id, args) == [tag |-> tag, len |-> len, id |-> id, args |-> args]

\* Every byte array has one term.  A literal (bytes known) is "zero" when
\* all its bytes are 0 and "bytes" otherwise; an atom is the whole result of
\* a primitive; a "slice" is a proper part of an atom; a "concat" is a list
\* of two or more literals, atoms and slices in which neighbours that can be
\* written as one are written as one.
\* new Uint8Array(n): n zero bytes
Zero(n) == B("zero", n, 0, <<>>)
Zero32 == Zero(32)
\* the k-th draw of randomBytes(n)
randomBytes(k, n) == B("rand", n, k, <<>>)
\* a string used as HKDF info
Str(s) == B(s, 0, 0, <<>>)
\* one literal byte
Byte(v) == B("byte", 1, v, <<>>)
\* a literal byte array
Bytes(vs) ==
  IF \A i \in 1..Len(vs) : vs[i] = 0 THEN Zero(Len(vs))
  ELSE B("bytes", Len(vs), 0, [i \in 1..Len(vs) |-> Byte(vs[i])])
IsLiteral(x) == x.tag \in {"zero", "bytes"}
\* the bytes of a literal
ValuesOf(x) ==
  IF x.tag = "zero" THEN [i \in 1..x.len |-> 0]
  ELSE [i \in 1..x.len |-> x.args[i].id]

\* the bytes from..to-1 of atom x
Piece(x, from, to) ==
  IF from = 0 /\ to = x.len THEN x ELSE B("slice", to - from, from, <<x>>)
\* the list a byte array stands for
Items(x) ==
  IF x.len = 0 THEN <<>> ELSE IF x.tag = "concat" THEN x.args ELSE <<x>>
\* two neighbours, written as one where they can be
Join(a, b) ==
  IF IsLiteral(a) /\ IsLiteral(b) THEN <<Bytes(ValuesOf(a) \o ValuesOf(b))>>
  ELSE IF a.tag = "slice" /\ b.tag = "slice" /\ a.args = b.args /\ a.id + a.len = b.id
       THEN <<Piece(a.args[1], a.id, b.id + b.len)>>
  ELSE <<a, b>>
RECURSIVE Joined(_)
Joined(items) ==
  IF Len(items) <= 1 THEN items
  ELSE LET rest == Joined(Tail(items))
           j == Join(Head(items), Head(rest))
       IN  IF Len(j) = 1 THEN j \o Tail(rest) ELSE <<Head(items)>> \o rest
RECURSIVE SumLen(_)
SumLen(items) == IF Len(items) = 0 THEN 0 ELSE Head(items).len + SumLen(Tail(items))
Pack(items) ==
  IF Len(items) = 0 THEN Zero(0)
  ELSE IF Len(items) = 1 THEN items[1]
  ELSE B("concat", SumLen(items), 0, items)
RECURSIVE ItemsOfAll(_)
ItemsOfAll(parts) ==
  IF Len(parts) = 0 THEN <<>> ELSE Items(Head(parts)) \o ItemsOfAll(Tail(parts))
\* new Uint8Array([...a, ...b, ...c]): the bytes of the parts, one after another
Concat(parts) == Pack(Joined(ItemsOfAll(parts)))

\* x.slice(from, to) with 0 <= from
RECURSIVE Slice(_, _, _)
RECURSIVE SliceItems(_, _, _)
SliceItems(items, from, to) ==
  IF Len(items) = 0 \/ to <= 0 THEN <<>>
  ELSE LET n == Head(items).len
       IN  IF from >= n THEN SliceItems(Tail(items), from - n, to - n)
           ELSE Items(Slice(Head(items), from, to)) \o SliceItems(Tail(items), 0, to - n)
Slice(x, from, to) ==
  LET hi == IF to > x.len THEN x.len ELSE to
  IN  IF hi <= from THEN Zero(0)
      ELSE IF from = 0 /\ hi = x.len THEN x
      ELSE IF IsLiteral(x) THEN Bytes(SubSeq(ValuesOf(x), from + 1, hi))
      ELSE IF x.tag = "slice" THEN B("slice", hi - from, x.id + from, x.args)
      ELSE IF x.tag = "concat" THEN Pack(Joined(SliceItems(x.args, from, hi)))
      ELSE Piece(x, from, hi)
\* x.slice(0, n)
SliceTo(x, n) == Slice(x, 0, n)

sha256(data) == B("sha256", 32, 0, <<data>>)

\* the marker returned by a primitive that throws
Throws == B("throws", 0, 0, <<>>)

RECURSIVE TrimZeros(_)
TrimZeros(vs) ==
  IF Len(vs) = 0 THEN vs
  ELSE IF vs[Len(vs)] # 0 THEN vs
  ELSE TrimZeros(SubSeq(vs, 1, Len(vs) - 1))
\* The key of an HMAC is hashed when it is longer than a block of 64 bytes
\* and then padded with zero bytes to the block: keys that differ in
\* trailing zero bytes only are one key.
hmacKey(key) ==
  LET k == IF key.len > 64 THEN sha256(key) ELSE key
  IN  IF IsLiteral(k) THEN Bytes(TrimZeros(ValuesOf(k)))
      ELSE IF k.tag = "concat" /\ IsLiteral(k.args[Len(k.args)])
           THEN Concat(SubSeq(k.args, 1, Len(k.args) - 1)
                       \o <<Bytes(TrimZeros(ValuesOf(k.args[Len(k.args)])))>>)
      ELSE k
\* hkdf(sha256, ikm, salt, info, length): the first length bytes of the 32
\* byte blocks of HKDF-Expand under HKDF-Extract(salt, ikm)
hkdf(ikm, salt, info, length) ==
  IF length > 255 * 32 THEN Throws
  ELSE SliceTo(Concat([n \in 1..((length + 31) \div 32) |->
                         B("hkdf", 32, n - 1, <<ikm, hmacKey(salt), Str(info)>>)]),
               length)

\* x25519.getPublicKey(secretKey)
getPublicKey(secretKey) == B("pub", 32, 0, <<secretKey>>)

\* The u-coordinates of the points of small order (1, 2, 4 and 8) as the 32
\* bytes that encode them: 0, 1, the two points of order 8, p - 1, and the
\* encodings p and p + 1 of 0 and 1 (p = 2^255 - 19).
SmallOrderPoints ==
  { [i \in 1..32 |-> 0],
    <<1>> \o [i \in 1..31 |-> 0],
    <<224, 235, 122, 124, 59, 65, 184, 174, 22, 86, 227, 250, 241, 159, 196, 106,
      218, 9, 141, 235, 156, 50, 177, 253, 134, 98, 5, 22, 95, 73, 184, 0>>,
    <<95, 156, 149, 188, 163, 80, 140, 36, 177, 208, 177, 85, 156, 131, 239, 91,
      4, 68, 92, 196, 88, 28, 142, 134, 216, 34, 78, 221, 208, 159, 17, 87>>,
    <<236>> \o [i \in 1..30 |-> 255] \o <<127>>,
    <<237>> \o [i \in 1..30 |-> 255] \o <<127>>,
    <<238>> \o [i \in 1..30 |-> 255] \o <<127>> }
\* pk encodes a point of small order; the top bit of the last byte is not
\* part of the u-coordinate
SmallOrder(pk) ==
  /\ IsLiteral(pk)
  /\ pk.len = 32
  /\ [ValuesOf(pk) EXCEPT ![32] = @ % 128] \in SmallOrderPoints

\* a scalar multiplication that returns the all-zero result like any other
getSharedSecretUnchecked(sk, pk) ==
  IF sk.len # 32 \/ pk.len # 32 THEN Throws
  ELSE B("x25519", 32, 0, <<sk, pk>>)
\* x25519.getSharedSecret(ourSecretKey, theirPublicKey): commutative in the
\* two secret scalars; throws on a key of the wrong length and when the
\* result is all-zero, as it is for every point of small order.
getSharedSecret(sk, pk) ==
  IF sk.len # 32 \/ pk.len # 32 THEN Throws
  ELSE IF SmallOrder(pk) THEN Throws
  ELSE IF pk.tag = "pub"
       THEN LET other == pk.args[1]
            IN  IF sk.id <= other.id THEN B("dh", 32, 0, <<sk, other>>)
                                      ELSE B("dh", 32, 0, <<other, sk>>)
  ELSE B("x25519", 32, 0, <<sk, pk>>)

\* chacha20poly1305(key, nonce).encrypt(plaintext): ciphertext and 16 byte tag
aeadEncrypt(key, nonce, plaintext) ==
  B("aead", plaintext.len + 16, 0, <<key, nonce, plaintext>>)
\* a decryption that opens a ciphertext under any key
aeadDecryptAnyKey(key, nonce, ciphertext) ==
  IF ciphertext.tag = "aead" THEN ciphertext.args[3] ELSE Throws
\* chacha20poly1305(key, nonce).decrypt(ciphertext): throws on a bad tag
aeadDecrypt(key, nonce, ciphertext) ==
  IF ciphertext.tag = "aead" /\ ciphertext.args[1] = key /\ ciphertext.args[2] = nonce
  THEN ciphertext.args[3]
  ELSE Throws
\* one byte of x changed (same length, different content)
Flip(x) == B("flip", x.len, 0, <<x>>)

(* --------------------------- text encoding ----------------------------- *)
\* A string is a sequence of UTF-16 code units.
\* the code units 55296..56319 are high surrogates, 56320..57343 low ones
\* the UTF-8 bytes of a code point
Utf8Of(cp) ==
  IF cp < 128 THEN <<cp>>
  ELSE IF cp < 2048 THEN <<192 + (cp \div 64), 128 + (cp % 64)>>
  ELSE IF cp < 65536
       THEN <<224 + (cp \div 4096), 128 + ((cp \div 64) % 64), 128 + (cp % 64)>>
  ELSE <<240 + (cp \div 262144), 128 + ((cp \div 4096) % 64),
         128 + ((cp \div 64) % 64), 128 + (cp % 64)>>
\* A surrogate pair is one code point; a surrogate without its partner is
\* encoded as U+FFFD.
RECURSIVE Utf8(_)
Utf8(s) ==
  IF Len(s) = 0 THEN <<>>
  ELSE LET c == Head(s)
       IN  IF c \in 55296..56319 /\ Len(s) >= 2 /\ s[2] \in 56320..57343
           THEN Utf8Of(65536 + (c - 55296) * 1024 + (s[2] - 56320))
                \o Utf8(SubSeq(s, 3, Len(s)))
           ELSE IF c \in 55296..57343
           THEN <<239, 191, 189>> \o Utf8(Tail(s))
           ELSE Utf8Of(c) \o Utf8(Tail(s))
\* new TextEncoder().encode(plaintext)
TextEncode(s) == Bytes(Utf8(s))

\* the UTF-16 code units of a code point
Utf16Of(cp) ==
  IF cp < 65536 THEN <<cp>>
  ELSE <<55296 + ((cp - 65536) \div 1024), 56320 + ((cp - 65536) % 1024)>>
\* The UTF-8 decoder from byte i of bs on, with needed bytes of the code
\* point cp still to come, the next of them within lower..upper.  A byte
\* that cannot continue the sequence ends it with U+FFFD and is decoded
\* again as the start of a sequence; an unfinished sequence at the end of
\* the input gives one U+FFFD.
RECURSIVE utf8Decoder(_, _, _, _, _, _)
utf8Decoder(bs, i, cp, needed, lower, upper) ==
  IF i > Len(bs) THEN (IF needed # 0 THEN <<65533>> ELSE <<>>)
  ELSE LET b == bs[i]
       IN  IF needed = 0
           THEN IF b <= 127 THEN <<b>> \o utf8Decoder(bs, i + 1, 0, 0, 128, 191)
                ELSE IF b >= 194 /\ b <= 223
                     THEN utf8Decoder(bs, i + 1, b - 192, 1, 128, 191)
                ELSE IF b >= 224 /\ b <= 239
                     THEN utf8Decoder(bs, i + 1, b - 224, 2,
                                      IF b = 224 THEN 160 ELSE 128,
                                      IF b = 237 THEN 159 ELSE 191)
                ELSE IF b >= 240 /\ b <= 244
                     THEN utf8Decoder(bs, i + 1, b - 240, 3,
                                      IF b = 240 THEN 144 ELSE 128,
                                      IF b = 244 THEN 143 ELSE 191)
                ELSE <<65533>> \o utf8Decoder(bs, i + 1, 0, 0, 128, 191)
           ELSE IF b < lower \/ b > upper
                THEN <<65533>> \o utf8Decoder(bs, i, 0, 0, 128, 191)
           ELSE IF needed = 1
                THEN Utf16Of(cp * 64 + (b - 128)) \o utf8Decoder(bs, i + 1, 0, 0, 128, 191)
           ELSE utf8Decoder(bs, i + 1, cp * 64 + (b - 128), needed - 1, 128, 191)
\* the decoding of bytes, a byte order mark at their start taken off
Utf8Decode(bs) ==
  IF Len(bs) >= 3 /\ SubSeq(bs, 1, 3) = <<239, 187, 191>>
  THEN utf8Decoder(bs, 4, 0, 0, 128, 191)
  ELSE utf8Decoder(bs, 1, 0, 0, 128, 191)
\* new TextDecoder().decode(bytes); of bytes that are not known (a draw, a
\* hash, a derived key) the text is not known either, in length or in code
\* units: it is the term "decoded x"
TextDecode(x) ==
  IF IsLiteral(x) THEN Utf8Decode(ValuesOf(x)) ELSE [decoded |-> x]

(* --------------------------- SecureCrypto ------------------------------ *)
\* deriveKeys(inputKeyMaterial, salt, info, length = 32, version = 1)
deriveKeys(inputKeyMaterial, salt, info) ==
  LET versionedInfo == "Gizli-v" \o ToString(1) \o "-" \o info
  IN  hkdf(inputKeyMaterial, salt, versionedInfo, 32)

(* ------------------------------- state --------------------------------- *)
VARIABLES
  heap,           \* address -> [val, detached]: every Uint8Array wiped in place
  sessionStates,  \* SecureCrypto.sessionStates: sessionId -> SecureSessionState
  net,            \* EncryptedMessages handed back to callers
  last,           \* the last call that changed the state, and its outcome
  params,         \* history: how each session was initialized
  sent,           \* history: per session, what encryptMessage did, in order
  got,            \* history: per session, the messages that passed the mac check
  cleared,        \* history: identifiers removed from the registry
  peers,          \* SecureP2PNetwork.peers: peer public key -> PeerConnection
  closing,        \* the queued 'close' events of destroyed peers: session and object
  wire,           \* SecureMessages handed to peer.send
  cteA, cteB, cteThrows, cteResult  \* one constantTimeEqual call

vars == <<heap, sessionStates, net, last, params, sent, got, cleared, peers,
          closing, wire, cteA, cteB, cteThrows, cteResult>>
cteVars == <<cteA, cteB, cteThrows, cteResult>>
netVars == <<peers, closing, wire>>

\* Addresses are <<session, field, n>>: the n-th buffer allocated for that
\* field of that session; session 0 is the caller.
Addr(i, field, n) == <<i, field, n>>
Null == Addr(0, "null", 0)
\* the caller's KeyPair objects (generateKeyPair results)
KeyPairs == {1, 2}
KeyPairOf(k) == [secretKey |-> Addr(0, "secretKey", k), publicKey |-> Addr(0, "publicKey", k)]
\* a caller's buffer holding the all-zero (low order) X25519 point
CallerBuffers == { KeyPairOf(k).secretKey : k \in KeyPairs }
                 \cup { KeyPairOf(k).publicKey : k \in KeyPairs }
                 \cup { Addr(0, "lowOrder", n) : n \in 0..3 }
\* the shared secret of a completed key agreement
SharedSecret == B("secret", 32, 1, <<>>)
\* "hi", and a byte order mark, U+00E9 and U+1F600 (a surrogate pair)
Plaintexts == {<<104, 105>>, <<65279, 233, 55357, 56832>>}
\* an identifier that no session ever had
UnknownId == 0

\* Random draws are named by the session and call that makes them, so that
\* every draw is a value of its own: draw n of the given kind in session i.
DrawKinds == <<"callerKey", "ephemeral", "nonce", "ratchet", "peerKey",
               "dummyKey", "dummyText", "dummyNonce", "dummyEphemeral">>
Draw(i, kind, n) ==
  i * 100 + ((CHOOSE k \in 1..Len(DrawKinds) : DrawKinds[k] = kind) - 1) * 10 + n

Buf(v) == [val |-> v, detached |-> FALSE]
\* the number of buffers allocated so far for a field of a session
Count(h, i, field) == Cardinality({ a \in DOMAIN h : a[1] = i /\ a[2] = field })
Fresh(h, i, field) == Addr(i, field, Count(h, i, field) + 1)
Ext(f, k, v) == [x \in DOMAIN f \cup {k} |-> IF x = k THEN v ELSE f[x]]
Without(f, k) == [x \in DOMAIN f \ {k} |-> f[x]]

\* generateKeyPair() with random draw k
generateKeyPair(k) ==
  LET secretKey == randomBytes(k, 32)
  IN  [publicKey |-> getPublicKey(secretKey), secretKey |-> secretKey]

InitHeap ==
  [ a \in CallerBuffers |->
      IF a[2] = "secretKey" THEN Buf(generateKeyPair(Draw(0, "callerKey", a[3])).secretKey)
      ELSE IF a[2] = "publicKey"
           THEN Buf(generateKeyPair(Draw(0, "callerKey", a[3])).publicKey)
      ELSE IF a[3] = 0 THEN Buf(Zero32)
      ELSE IF a[3] = 1 THEN Buf(Bytes(<<1>> \o [i \in 1..31 |-> 0]))
      ELSE IF a[3] = 2
           THEN Buf(Bytes(CHOOSE p \in SmallOrderPoints : p[1] = 224))
      ELSE Buf(Bytes(<<238>> \o [i \in 1..30 |-> 255] \o <<255>>)) ]

Called(op, id, outcome) ==
  [op |-> op, id |-> id, outcome |-> outcome, text |-> <<>>, arg |-> Null]

InitCrypto ==
  /\ heap = InitHeap
  /\ sessionStates = << >>
  /\ net = {}
  /\ last = Called("new", UnknownId, "ok")
  /\ params = << >>
  /\ sent = << >>
  /\ got = << >>
  /\ cleared = {}
  /\ peers = << >>
  /\ closing = {}
  /\ wire = {}

InitCTEIdle ==
  /\ cteA = <<>>
  /\ cteB = <<>>
  /\ cteThrows = FALSE
  /\ cteResult = "none"

Init == InitCrypto /\ InitCTEIdle

Live == DOMAIN sessionStates
Known == Live \cup cleared \cup {UnknownId}
\* the bytes of the call before, drawn again
NextSessionIdRepeated == IF DOMAIN params = {} THEN 1 ELSE Cardinality(DOMAIN params)
\* sodium.to_hex(randomBytes(16)): like every draw of randomBytes, the 16
\* bytes are those of no earlier call; the n-th identifier drawn is n
NextSessionId == Cardinality(DOMAIN params) + 1

\* the calls made so far that made or changed a session: initializeSession,
\* encryptMessage, decryptMessage past the MAC, performDHRatchet (Ops)
Encrypts == Cardinality(UNION { { <<id, i>> : i \in 1..Len(sent[id]) } : id \in DOMAIN sent })
Decrypts == Cardinality(UNION { { <<id, i>> : i \in 1..Len(got[id]) } : id \in DOMAIN got })
\* the number of successful ratchets of session i
RatchetsOf(h, i) == Count(h, i, "ratchetSecretKey")
Ratchets == Cardinality({ a \in DOMAIN heap : a[2] = "ratchetSecretKey" })
\* the number of encryptMessage calls that reached session identifier i
EncryptionsOf(h, i) == Count(h, i, "encryptMessageKey")
\* the initializeSession calls that registered a session
Initialized == Cardinality({ a \in DOMAIN heap : a[2] = "rootKey" }) - Ratchets
Ops == Initialized + Encrypts + Decrypts + Ratchets

\* the message key of a chain key (encryptMessage, decryptMessage)
messageKeyOf(chainKey) == deriveKeys(chainKey, Zero(1), "MessageKey")
\* a chain key that stays as it is
nextChainKeyStuck(chainKey) == chainKey
\* the chain key that follows a chain key (encryptMessage, decryptMessage)
nextChainKey(chainKey) == deriveKeys(chainKey, Zero(1), "ChainKeyNext")

\* secureZero(data): every pass writes the whole array and the last one
\* writes zeros; TypedArray.prototype.fill throws on a detached buffer.
secureZero(h, a) ==
  IF h[a].detached THEN [heap |-> h, threw |-> TRUE]
  ELSE [heap |-> [h EXCEPT ![a].val = Zero(@.len)], threw |-> FALSE]

(* -------------------------- initializeSession -------------------------- *)
\* initializeSession(sharedSecret, ourRatchetKey, theirRatchetKey?) on heap h
\* and registry ss, with sessionId the identifier it draws; their = Null
\* stands for an omitted third argument.  sessionStates.set replaces the
\* state registered under sessionId, if there is one.
initializeSession(h, ss, sessionId, sharedSecret, our, their) ==
  LET rootKey == deriveKeys(sharedSecret, Zero32, "RootKey")
      dh == IF their # Null
            THEN getSharedSecret(h[our.secretKey].val, h[their].val)
            ELSE Zero32
      receivingChainKey == IF their # Null THEN deriveKeys(rootKey, dh, "ChainKey")
                                           ELSE Zero32
      sendingChainKey == IF their # Null THEN Zero32
                         ELSE deriveKeys(rootKey, Zero32, "ChainKey")
      session == [sendingChainKey |-> Fresh(h, sessionId, "sendingChainKey"),
                  receivingChainKey |-> Fresh(h, sessionId, "receivingChainKey"),
                  rootKey |-> Fresh(h, sessionId, "rootKey"),
                  sendingRatchetKey |-> our,
                  receivingRatchetKey |-> their,
                  messageNumber |-> 0,
                  previousChainLength |-> 0]
  IN  IF dh = Throws
      THEN [outcome |-> "Invalid private or public key received",
            heap |-> h, sessionStates |-> ss]
      ELSE [outcome |-> "ok",
            heap |-> Ext(Ext(Ext(h, session.rootKey, Buf(rootKey)),
                             session.sendingChainKey, Buf(sendingChainKey)),
                         session.receivingChainKey, Buf(receivingChainKey)),
            sessionStates |-> Ext(ss, sessionId, session)]

\* the history kept of a successful initializeSession
Registered(sessionId, sharedSecret, our, their) ==
  /\ params' = Ext(params, sessionId,
       [sharedSecret |-> sharedSecret,
        our |-> our,
        ourPublicKey |-> heap[our.publicKey].val,
        their |-> their,
        theirKey |-> IF their # Null THEN heap[their].val ELSE Throws])
  /\ sent' = Ext(sent, sessionId, <<>>)
  /\ got' = Ext(got, sessionId, <<>>)

\* caller's buffers that hold points of small order: u = 0, u = 1, a point of
\* order 8, and p + 1 written with the top bit set
LowOrderKeys == { Addr(0, "lowOrder", n) : n \in 0..3 }
\* Key pair 1 is used by initiators (no third argument); key pair 2 by
\* responders, who pass the initiator's public key buffer or a low order point.
TheirKeys(k) == IF k = 1 THEN {Null} ELSE {KeyPairOf(1).publicKey} \cup LowOrderKeys

\* one initializeSession call that draws sessionId, as a step
InitializeCall(sessionId) ==
  \E k \in KeyPairs : \E their \in TheirKeys(k) :
    LET r == initializeSession(heap, sessionStates, sessionId, SharedSecret,
                               KeyPairOf(k), their)
    IN  IF r.outcome # "ok"
        THEN UNCHANGED <<heap, sessionStates, last, params, sent, got>>
        ELSE /\ heap' = r.heap
             /\ sessionStates' = r.sessionStates
             /\ last' = Called("initializeSession", sessionId, "ok")
             /\ Registered(sessionId, SharedSecret, KeyPairOf(k), their)

\* initializeSession(sharedSecret, ourRatchetKey, theirRatchetKey?)
InitializeSession ==
  /\ Initialized < MaxSessions
  /\ InitializeCall(NextSessionId)
  /\ UNCHANGED <<net, cleared>>
  /\ UNCHANGED netVars
  /\ UNCHANGED cteVars

(* ---------------------------- encryptMessage --------------------------- *)
NoMsg == [ciphertext |-> Throws, nonce |-> Throws, ephemeralPublicKey |-> Throws,
          mac |-> Throws]

\* a plaintext argument that is not a string and has no conversion to one
\* (a Symbol): new TextEncoder().encode(plaintext) throws a TypeError
NotAString == <<-1>>
Encodable(plaintext) == \A i \in 1..Len(plaintext) : plaintext[i] >= 0

\* a failing call that had not yet touched the session
encodeFirst(h, ss, h1, ss1) == [heap |-> h, sessionStates |-> ss]
\* what a call that fails in the encoding leaves: the chain key and the
\* message number were replaced before
advanceFirst(h, ss, h1, ss1) == [heap |-> h1, sessionStates |-> ss1]

\* a message number that stays as it is
nextMessageNumberSame(messageNumber) == messageNumber
\* session.messageNumber++
nextMessageNumber(messageNumber) == messageNumber + 1

\* encryptMessage(sessionId, plaintext), the n-th encryption of the session
encryptMessage(h, ss, sessionId, plaintext, n) ==
  IF sessionId \notin DOMAIN ss
  THEN [outcome |-> "Session not found", heap |-> h, sessionStates |-> ss,
        msg |-> NoMsg, messageKey |-> Throws, keyBuffer |-> Null]
  ELSE LET session == ss[sessionId]
           ephemeralKeyPair == generateKeyPair(Draw(sessionId, "ephemeral", n))
           messageKey == messageKeyOf(h[session.sendingChainKey].val)
           newChainKey == nextChainKey(h[session.sendingChainKey].val)
           nonce == randomBytes(Draw(sessionId, "nonce", n), 12)
           plaintextBytes == TextEncode(plaintext)
           ciphertext == aeadEncrypt(messageKey, nonce, plaintextBytes)
           mac == sha256(Concat(<<ciphertext, nonce, ephemeralKeyPair.publicKey>>))
           newAddr == Fresh(h, sessionId, "sendingChainKey")
           keyAddr == Fresh(h, sessionId, "encryptMessageKey")
           h1 == Ext(Ext(h, keyAddr, Buf(messageKey)), newAddr, Buf(newChainKey))
           ss1 == [ss EXCEPT ![sessionId].sendingChainKey = newAddr,
                             ![sessionId].messageNumber = nextMessageNumber(@)]
           failed == advanceFirst(h, ss, h1, ss1)
       IN  IF ~Encodable(plaintext)
           THEN [outcome |-> "TypeError", heap |-> failed.heap,
                 sessionStates |-> failed.sessionStates,
                 msg |-> NoMsg, messageKey |-> messageKey, keyBuffer |-> keyAddr]
           ELSE [outcome |-> "ok",
                 heap |-> secureZero(h1, keyAddr).heap,
                 sessionStates |-> ss1,
                 msg |-> [ciphertext |-> ciphertext, nonce |-> nonce,
                          ephemeralPublicKey |-> ephemeralKeyPair.publicKey,
                          mac |-> SliceTo(mac, 16)],
                 messageKey |-> messageKey, keyBuffer |-> keyAddr]

\* the history kept of an encryptMessage call that changed the state
Encrypted(sessionId, plaintext, r) ==
  sent' = [sent EXCEPT ![sessionId] = Append(@,
     [plaintext |-> plaintext, msg |-> r.msg,
      messageKey |-> r.messageKey,
      outcome |-> r.outcome,
      keyBuffer |-> r.keyBuffer,
      epoch |-> RatchetsOf(heap, sessionId),
      chainKeyBefore |-> heap[sessionStates[sessionId].sendingChainKey].val,
      chainKeyAfter |-> r.heap[r.sessionStates[sessionId].sendingChainKey].val])]

\* one encryptMessage(sessionId, plaintext) call as a step; a call that
\* changes nothing leaves no trace
EncryptCall(sessionId, plaintext) ==
  LET r == encryptMessage(heap, sessionStates, sessionId, plaintext,
                          EncryptionsOf(heap, sessionId) + 1)
  IN  IF r.heap = heap /\ r.sessionStates = sessionStates
      THEN UNCHANGED <<heap, sessionStates, net, last, sent>>
      ELSE /\ heap' = r.heap
           /\ sessionStates' = r.sessionStates
           /\ net' = IF r.outcome = "ok" THEN net \cup {r.msg} ELSE net
           /\ Encrypted(sessionId, plaintext, r)
           /\ last' = Called("encryptMessage", sessionId, r.outcome)

\* encryptMessage(sessionId, plaintext) with a string
EncryptMessage ==
  /\ Ops < MaxOps
  /\ \E sessionId \in Known, plaintext \in Plaintexts :
       EncryptCall(sessionId, plaintext)
  /\ UNCHANGED <<params, got, cleared>>
  /\ UNCHANGED netVars
  /\ UNCHANGED cteVars

\* encryptMessage(sessionId, plaintext) with whatever a caller passes
EncryptMessageAny ==
  /\ Ops < MaxOps
  /\ \E sessionId \in Known, plaintext \in Plaintexts \cup {NotAString} :
       EncryptCall(sessionId, plaintext)
  /\ UNCHANGED <<params, got, cleared>>
  /\ UNCHANGED netVars
  /\ UNCHANGED cteVars

(* ---------------------------- decryptMessage --------------------------- *)
\* a comparison that finds any two arrays equal
memcmpAlways(a, b) == TRUE
\* sodium.memcmp(a, b) on arrays of equal length
memcmp(a, b) == a = b
\* a comparison that only looks at the lengths
macEqualLengthOnly(a, b) == a.len = b.len
\* JSON.parse(JSON.stringify(x)) of a Uint8Array x: JSON.stringify writes
\* the object of its indices, {"0":..,"1":..}, and JSON.parse gives a plain
\* object back, with no length (-1 here) and no iterator
\* (tag "object" over the bytes); JSON.parse of "[..]" gives an array of
\* numbers (tag "array" over the bytes).
\* [...x] of a Uint8Array or of an array of numbers
Spread(x) == IF x.tag = "array" THEN x.args[1] ELSE x
\* constantTimeEqual(a, b) on symbolic byte arrays; a is the mac of the
\* message: an object has no length; with an array of numbers sodium.memcmp
\* throws and the loop compares number by number
macEqual(a, b) ==
  IF a.len # b.len THEN FALSE
  ELSE IF a.tag = "array" THEN Spread(a) = b
  ELSE memcmp(a, b)

\* a throw that empties the registry on its way out
thrownEmptied(outcome, h, ss) ==
  [outcome |-> outcome, heap |-> h, sessionStates |-> << >>, text |-> <<>>,
   messageKey |-> Throws, keyBuffer |-> Null]
\* throw new Error(outcome) of decryptMessage, before any key is derived
thrown(outcome, h, ss) ==
  [outcome |-> outcome, heap |-> h, sessionStates |-> ss, text |-> <<>>,
   messageKey |-> Throws, keyBuffer |-> Null]

\* decryptMessage(sessionId, encryptedMessage)
decryptMessage(h, ss, sessionId, encryptedMessage) ==
  IF sessionId \notin DOMAIN ss
  THEN thrown("Session not found", h, ss)
  ELSE LET session == ss[sessionId]
           expectedMac == sha256(Concat(<<Spread(encryptedMessage.ciphertext),
                                          Spread(encryptedMessage.nonce),
                                          Spread(encryptedMessage.ephemeralPublicKey)>>))
           messageKey == messageKeyOf(h[session.receivingChainKey].val)
           newChainKey == nextChainKey(h[session.receivingChainKey].val)
           newAddr == Fresh(h, sessionId, "receivingChainKey")
           keyAddr == Fresh(h, sessionId, "decryptMessageKey")
           h1 == Ext(Ext(h, keyAddr, Buf(messageKey)), newAddr, Buf(newChainKey))
           advanced == [ss EXCEPT ![sessionId].receivingChainKey = newAddr]
           decrypted == aeadDecrypt(messageKey, encryptedMessage.nonce,
                                    encryptedMessage.ciphertext)
           failed == [outcome |-> "invalid tag", heap |-> h1,
                      sessionStates |-> advanced, text |-> <<>>,
                      messageKey |-> messageKey, keyBuffer |-> keyAddr]
       IN  IF encryptedMessage.ciphertext.tag = "object"
           THEN thrown("encryptedMessage.ciphertext is not iterable", h, ss)
           ELSE IF encryptedMessage.nonce.tag = "object"
           THEN thrown("encryptedMessage.nonce is not iterable", h, ss)
           ELSE IF encryptedMessage.ephemeralPublicKey.tag = "object"
           THEN thrown("encryptedMessage.ephemeralPublicKey is not iterable", h, ss)
           ELSE IF ~macEqual(encryptedMessage.mac, SliceTo(expectedMac, 16))
           THEN thrown("MAC verification failed", h, ss)
           ELSE IF encryptedMessage.nonce.tag = "array"
                   \/ encryptedMessage.ciphertext.tag = "array"
           THEN [failed EXCEPT !.outcome = "Uint8Array expected"]
           ELSE IF encryptedMessage.nonce.len # 12
           THEN [failed EXCEPT !.outcome = "Uint8Array expected of length 12, not of length="
                                         \o ToString(encryptedMessage.nonce.len)]
           ELSE IF encryptedMessage.ciphertext.len < 16
           THEN [failed EXCEPT !.outcome = "invalid ciphertext length: smaller than tagLength=16"]
           ELSE IF decrypted = Throws
           THEN [outcome |-> "invalid tag", heap |-> h1,
                 sessionStates |-> advanced, text |-> <<>>, messageKey |-> messageKey,
                 keyBuffer |-> keyAddr]
           ELSE [outcome |-> "ok", heap |-> secureZero(h1, keyAddr).heap,
                 sessionStates |-> advanced, text |-> TextDecode(decrypted),
                 messageKey |-> messageKey, keyBuffer |-> keyAddr]

Fields == {"ciphertext", "nonce", "ephemeralPublicKey", "mac"}
\* m with one byte of field f changed
Tamper(m, f) == [m EXCEPT ![f] = Flip(@)]
\* m with the nonce moved to the end of the ciphertext
NonceToCiphertext(m) ==
  [m EXCEPT !.ciphertext = Concat(<<m.ciphertext, m.nonce>>), !.nonce = Zero(0)]
\* m with the last byte of the ciphertext moved to the nonce and the last
\* byte of the nonce to the ephemeralPublicKey
Shifted(m) ==
  LET n == m.ciphertext.len
  IN  [m EXCEPT !.ciphertext = Slice(m.ciphertext, 0, n - 1),
                !.nonce = Concat(<<Slice(m.ciphertext, n - 1, n),
                                   Slice(m.nonce, 0, m.nonce.len - 1)>>),
                !.ephemeralPublicKey = Concat(<<Slice(m.nonce, m.nonce.len - 1, m.nonce.len),
                                                m.ephemeralPublicKey>>)]
\* m without its ephemeralPublicKey
WithoutEphemeral(m) == [m EXCEPT !.ephemeralPublicKey = Zero(0)]
\* the first 16 bytes of hash(ciphertext || nonce || ephemeralPublicKey)
ExpectedMac(m) ==
  SliceTo(sha256(Concat(<<m.ciphertext, m.nonce, m.ephemeralPublicKey>>)), 16)
\* m with one byte of the ciphertext changed and the mac computed anew
Forge(m) ==
  LET forged == Tamper(m, "ciphertext")
  IN  [forged EXCEPT !.mac = ExpectedMac(forged)]
\* the messages of encryptMessage, as they are and with one byte changed
Deliverable == net \cup { Tamper(m, f) : m \in net, f \in Fields }
\* whatever a caller can hand to decryptMessage
Offered ==
  Deliverable \cup { NonceToCiphertext(m) : m \in net } \cup { Shifted(m) : m \in net }
              \cup { Forge(m) : m \in net }

\* one decryptMessage(sessionId, m) call as a step; a call that changes
\* nothing leaves no trace
DecryptCall(sessionId, m) ==
  LET r == decryptMessage(heap, sessionStates, sessionId, m)
  IN  IF r.heap = heap /\ r.sessionStates = sessionStates
      THEN UNCHANGED <<heap, sessionStates, last, got>>
      ELSE /\ heap' = r.heap
           /\ sessionStates' = r.sessionStates
           /\ got' = [got EXCEPT ![sessionId] = Append(@,
                [msg |-> m, outcome |-> r.outcome, text |-> r.text,
                 messageKey |-> r.messageKey, keyBuffer |-> r.keyBuffer])]
           /\ last' = [Called("decryptMessage", sessionId, r.outcome) EXCEPT
                        !.text = r.text]

\* decryptMessage(sessionId, m) with a message of encryptMessage, as it is
\* or with one byte changed
DecryptMessage ==
  /\ Ops < MaxOps
  /\ \E sessionId \in Known, m \in Deliverable : DecryptCall(sessionId, m)
  /\ UNCHANGED <<net, params, sent, cleared>>
  /\ UNCHANGED netVars
  /\ UNCHANGED cteVars

\* decryptMessage(sessionId, m) with whatever a caller passes
DecryptMessageAny ==
  /\ Ops < MaxOps
  /\ \E sessionId \in Known, m \in Offered : DecryptCall(sessionId, m)
  /\ UNCHANGED <<net, params, sent, cleared>>
  /\ UNCHANGED netVars
  /\ UNCHANGED cteVars

(* --------------------------- performDHRatchet -------------------------- *)
\* secureZero applied to the buffers of as in order, stopping where one throws
RECURSIVE secureZeroAll(_, _)
secureZeroAll(h, as) ==
  IF Len(as) = 0 THEN [heap |-> h, threw |-> FALSE]
  ELSE LET r == secureZero(h, Head(as))
       IN  IF r.threw THEN r ELSE secureZeroAll(r.heap, Tail(as))

\* the update that forgets to reset the message number
ratchetedKeepNumber(session, new, theirNewRatchetKey) ==
  [session EXCEPT !.rootKey = new.rootKey,
                  !.sendingChainKey = new.sendingChainKey,
                  !.sendingRatchetKey = [publicKey |-> new.publicKey,
                                         secretKey |-> new.secretKey],
                  !.receivingRatchetKey = theirNewRatchetKey]
\* the update of a ratchet that records the length of the chain it ends
ratchetedWithLength(session, new, theirNewRatchetKey) ==
  [session EXCEPT !.rootKey = new.rootKey,
                  !.sendingChainKey = new.sendingChainKey,
                  !.sendingRatchetKey = [publicKey |-> new.publicKey,
                                         secretKey |-> new.secretKey],
                  !.receivingRatchetKey = theirNewRatchetKey,
                  !.previousChainLength = session.messageNumber,
                  !.messageNumber = 0]
\* "Update session state" of performDHRatchet
ratcheted(session, new, theirNewRatchetKey) ==
  [session EXCEPT !.rootKey = new.rootKey,
                  !.sendingChainKey = new.sendingChainKey,
                  !.sendingRatchetKey = [publicKey |-> new.publicKey,
                                         secretKey |-> new.secretKey],
                  !.receivingRatchetKey = theirNewRatchetKey,
                  !.messageNumber = 0]

\* performDHRatchet(sessionId, theirNewRatchetKey), the n-th ratchet of the session
performDHRatchet(h, ss, sessionId, theirNewRatchetKey, n) ==
  IF sessionId \notin DOMAIN ss
  THEN [outcome |-> "Session not found", heap |-> h, sessionStates |-> ss]
  ELSE LET session == ss[sessionId]
           newRatchetKey == generateKeyPair(Draw(sessionId, "ratchet", n))
           dh == getSharedSecret(newRatchetKey.secretKey, h[theirNewRatchetKey].val)
           newRootKey == deriveKeys(h[session.rootKey].val, dh, "RootKeyNext")
           newSendingChainKey == deriveKeys(newRootKey, Zero32, "ChainKey")
           wiped == secureZeroAll(h, <<session.sendingRatchetKey.secretKey,
                                       session.rootKey, session.sendingChainKey>>)
           new == [rootKey |-> Fresh(h, sessionId, "rootKey"),
                   sendingChainKey |-> Fresh(h, sessionId, "sendingChainKey"),
                   secretKey |-> Addr(sessionId, "ratchetSecretKey", n),
                   publicKey |-> Addr(sessionId, "ratchetPublicKey", n)]
       IN  IF dh = Throws
           THEN [outcome |-> "Invalid private or public key received",
                 heap |-> h, sessionStates |-> ss]
           ELSE IF wiped.threw
           THEN [outcome |-> "TypeError", heap |-> wiped.heap, sessionStates |-> ss]
           ELSE [outcome |-> "ok",
                 heap |-> Ext(Ext(Ext(Ext(wiped.heap,
                              new.rootKey, Buf(newRootKey)),
                              new.sendingChainKey, Buf(newSendingChainKey)),
                              new.secretKey, Buf(newRatchetKey.secretKey)),
                              new.publicKey, Buf(newRatchetKey.publicKey)),
                 sessionStates |-> [ss EXCEPT ![sessionId] =
                                      ratcheted(@, new, theirNewRatchetKey)]]

PerformDHRatchet ==
  /\ Ratchets < MaxRatchets
  /\ Ops < MaxOps
  /\ \E sessionId \in Known, their \in {KeyPairOf(2).publicKey} \cup LowOrderKeys :
       LET r == performDHRatchet(heap, sessionStates, sessionId, their,
                                 RatchetsOf(heap, sessionId) + 1)
       IN  IF r.heap = heap /\ r.sessionStates = sessionStates
           THEN UNCHANGED <<heap, sessionStates, last>>
           ELSE /\ heap' = r.heap
                /\ sessionStates' = r.sessionStates
                /\ last' = [Called("performDHRatchet", sessionId, r.outcome)
                              EXCEPT !.arg = their]
  /\ UNCHANGED <<net, params, sent, got, cleared>>
  /\ UNCHANGED netVars
  /\ UNCHANGED cteVars

(* ------------------------ clearSession, emergencyPanic ----------------- *)
\* the wipes of a clearSession that forgets the root key
wipedByClearNoRoot(session) ==
  <<session.sendingChainKey, session.receivingChainKey,
    session.sendingRatchetKey.secretKey, session.sendingRatchetKey.publicKey>>
  \o (IF session.receivingRatchetKey # Null THEN <<session.receivingRatchetKey>>
      ELSE <<>>)
\* the buffers clearSession wipes, in the order it wipes them
wipedByClear(session) ==
  <<session.sendingChainKey, session.receivingChainKey, session.rootKey,
    session.sendingRatchetKey.secretKey, session.sendingRatchetKey.publicKey>>
  \o (IF session.receivingRatchetKey # Null THEN <<session.receivingRatchetKey>>
      ELSE <<>>)

\* a clearSession that does not test whether the session exists
clearSessionUnguarded(h, ss, sessionId) ==
  IF sessionId \notin DOMAIN ss
  THEN [threw |-> TRUE, heap |-> h, sessionStates |-> ss]
  ELSE LET wiped == secureZeroAll(h, wipedByClear(ss[sessionId]))
       IN  IF wiped.threw
           THEN [threw |-> TRUE, heap |-> wiped.heap, sessionStates |-> ss]
           ELSE [threw |-> FALSE, heap |-> wiped.heap,
                 sessionStates |-> Without(ss, sessionId)]
\* clearSession(sessionId)
clearSession(h, ss, sessionId) ==
  IF sessionId \notin DOMAIN ss
  THEN [threw |-> FALSE, heap |-> h, sessionStates |-> ss]
  ELSE LET wiped == secureZeroAll(h, wipedByClear(ss[sessionId]))
       IN  IF wiped.threw
           THEN [threw |-> TRUE, heap |-> wiped.heap, sessionStates |-> ss]
           ELSE [threw |-> FALSE, heap |-> wiped.heap,
                 sessionStates |-> Without(ss, sessionId)]

\* the keys of a Map in insertion order (identifiers are drawn in order)
RECURSIVE KeysInOrder(_)
KeysInOrder(S) ==
  IF S = {} THEN <<>>
  ELSE LET m == CHOOSE x \in S : \A y \in S : x <= y
       IN  <<m>> \o KeysInOrder(S \ {m})

\* a loop that ends after the first session
RECURSIVE clearFirstOnly(_, _, _)
clearFirstOnly(h, ss, ids) ==
  IF Len(ids) = 0 THEN [threw |-> FALSE, heap |-> h, sessionStates |-> ss]
  ELSE clearSession(h, ss, Head(ids))
\* for (const sessionId of this.sessionStates.keys()) this.clearSession(sessionId)
RECURSIVE clearEach(_, _, _)
clearEach(h, ss, ids) ==
  IF Len(ids) = 0 THEN [threw |-> FALSE, heap |-> h, sessionStates |-> ss]
  ELSE LET r == clearSession(h, ss, Head(ids))
       IN  IF r.threw THEN r ELSE clearEach(r.heap, r.sessionStates, Tail(ids))

\* emergencyPanic()
emergencyPanic(h, ss) ==
  LET r == clearEach(h, ss, KeysInOrder(DOMAIN ss))
  IN  IF r.threw THEN r
      ELSE [threw |-> FALSE, heap |-> r.heap, sessionStates |-> << >>]

Outcome(r) == IF r.threw THEN "TypeError" ELSE "ok"

ClearSession ==
  /\ \E sessionId \in Known :
       LET r == clearSession(heap, sessionStates, sessionId)
       IN  IF r.heap = heap /\ r.sessionStates = sessionStates
           THEN UNCHANGED <<heap, sessionStates, last, cleared>>
           ELSE /\ heap' = r.heap
                /\ sessionStates' = r.sessionStates
                /\ cleared' = IF r.threw THEN cleared ELSE cleared \cup {sessionId}
                /\ last' = Called("clearSession", sessionId, Outcome(r))
  /\ UNCHANGED <<net, params, sent, got>>
  /\ UNCHANGED netVars
  /\ UNCHANGED cteVars

EmergencyPanic ==
  /\ LET r == emergencyPanic(heap, sessionStates)
     IN  IF r.heap = heap /\ r.sessionStates = sessionStates
         THEN UNCHANGED <<heap, sessionStates, last, cleared>>
         ELSE /\ heap' = r.heap
              /\ sessionStates' = r.sessionStates
              /\ cleared' = IF r.threw THEN cleared \cup (Live \ DOMAIN r.sessionStates)
                            ELSE cleared \cup Live
              /\ last' = Called("emergencyPanic", UnknownId, Outcome(r))
  /\ UNCHANGED <<net, params, sent, got>>
  /\ UNCHANGED netVars
  /\ UNCHANGED cteVars

\* The caller transfers the ArrayBuffer of a key it handed to the engine
\* (postMessage with a transfer list): the array is detached, of length 0.
Detached == { a \in DOMAIN heap : heap[a].detached }
\* the caller's buffers that a live session refers to
HandedOver ==
  { a \in CallerBuffers : \E id \in Live :
      \/ a \in {sessionStates[id].sendingRatchetKey.secretKey,
                sessionStates[id].sendingRatchetKey.publicKey}
      \/ a = sessionStates[id].receivingRatchetKey }
\* the caller's key buffers that hold zeros only
Zeroed == { a \in CallerBuffers \ LowOrderKeys : heap[a].val.tag = "zero" }
CallerDetach ==
  /\ Cardinality(Detached \cup Zeroed) < MaxDetach
  /\ \E a \in HandedOver \ Detached :
       /\ heap' = [heap EXCEPT ![a] = [val |-> Zero(0), detached |-> TRUE]]
       /\ last' = [Called("detach", UnknownId, "ok") EXCEPT !.arg = a]
  /\ UNCHANGED <<sessionStates, net, params, sent, got, cleared>>
  /\ UNCHANGED netVars
  /\ UNCHANGED cteVars

\* The caller calls the public secureZero on a key buffer it handed to the
\* engine and still holds.
CallerSecureZero ==
  /\ Cardinality(Detached \cup Zeroed) < MaxDetach
  /\ \E a \in HandedOver \ (Detached \cup Zeroed) :
       /\ heap' = secureZero(heap, a).heap
       /\ last' = [Called("secureZero", UnknownId, "ok") EXCEPT !.arg = a]
  /\ UNCHANGED <<sessionStates, net, params, sent, got, cleared>>
  /\ UNCHANGED netVars
  /\ UNCHANGED cteVars

(* --------------------------- SecureP2PNetwork -------------------------- *)
PeerKeys == {"peer"}
\* the session that connectToPeer and handleWebRTCSignal create: a fresh
\* ephemeral key pair and the all-zero placeholder secret
PeerSession(h, ss, sessionId) ==
  LET ephemeralKeyPair ==
        generateKeyPair(Draw(sessionId, "peerKey",
                             Count(h, sessionId, "ephemeralSecretKey") + 1))
      our == [secretKey |-> Fresh(h, sessionId, "ephemeralSecretKey"),
              publicKey |-> Fresh(h, sessionId, "ephemeralPublicKey")]
      h1 == Ext(Ext(h, our.secretKey, Buf(ephemeralKeyPair.secretKey)),
                our.publicKey, Buf(ephemeralKeyPair.publicKey))
  IN  [our |-> our, heap |-> h1,
       init |-> initializeSession(h1, ss, sessionId, Zero32, our, Null)]

\* what both connectToPeer and handleWebRTCSignal do for a peer not in
\* peers, initializeSession drawing sessionId
NewPeer(op, peerPublicKey, sessionId) ==
  LET p == PeerSession(heap, sessionStates, sessionId)
  IN  /\ heap' = p.init.heap
      /\ sessionStates' = p.init.sessionStates
      /\ LET their == Null
             our == p.our
         IN  /\ params' = Ext(params, sessionId,
                   [sharedSecret |-> Zero32, our |-> our,
                    ourPublicKey |-> p.heap[our.publicKey].val,
                    their |-> their, theirKey |-> Throws])
             /\ sent' = Ext(sent, sessionId, <<>>)
             /\ got' = Ext(got, sessionId, <<>>)
      /\ peers' = Ext(peers, peerPublicKey,
           [sessionId |-> sessionId, isConnected |-> FALSE, destroyed |-> FALSE,
            object |-> Cardinality({ a \in DOMAIN heap : a[2] = "ephemeralSecretKey" }) + 1])
      /\ last' = Called(op, sessionId, "ok")

\* connectToPeer(peerPublicKey)
ConnectToPeer ==
  /\ Initialized < MaxSessions
  /\ \E peerPublicKey \in PeerKeys :
       IF peerPublicKey \in DOMAIN peers
       THEN UNCHANGED <<heap, sessionStates, params, sent, got, peers, last>>
       ELSE NewPeer("connectToPeer", peerPublicKey, NextSessionId)
  /\ UNCHANGED <<net, cleared, closing>>
  /\ UNCHANGED <<wire, cteVars>>

\* handleWebRTCSignal(data): a signal from a peer, known or not
HandleWebRTCSignal ==
  /\ Initialized < MaxSessions
  /\ \E fromPublicKey \in PeerKeys :
       IF fromPublicKey \in DOMAIN peers
       THEN UNCHANGED <<heap, sessionStates, params, sent, got, peers, last>>
       ELSE NewPeer("handleWebRTCSignal", fromPublicKey, NextSessionId)
  /\ UNCHANGED <<net, cleared, closing>>
  /\ UNCHANGED <<wire, cteVars>>

\* peer.on('connect')
PeerConnect ==
  /\ \E k \in DOMAIN peers :
       /\ ~peers[k].destroyed /\ ~peers[k].isConnected
       /\ peers' = [peers EXCEPT ![k].isConnected = TRUE]
       /\ last' = Called("connect", peers[k].sessionId, "ok")
  /\ UNCHANGED <<heap, sessionStates, net, params, sent, got, cleared, closing>>
  /\ UNCHANGED <<wire, cteVars>>

\* peer.on('close') of a peer that the remote side or the transport closed
PeerClose ==
  /\ \E k \in DOMAIN peers :
       /\ ~peers[k].destroyed
       /\ LET r == clearSession(heap, sessionStates, peers[k].sessionId)
          IN  /\ heap' = r.heap
              /\ sessionStates' = r.sessionStates
              /\ cleared' = IF r.threw \/ peers[k].sessionId \notin Live THEN cleared
                            ELSE cleared \cup {peers[k].sessionId}
              /\ last' = Called("close", peers[k].sessionId, Outcome(r))
       /\ peers' = [peers EXCEPT ![k].isConnected = FALSE, ![k].destroyed = TRUE]
  /\ UNCHANGED <<net, params, sent, got, closing>>
  /\ UNCHANGED <<wire, cteVars>>

\* the queued 'close' event of a peer that disconnect or shutdown destroyed:
\* the handler sets isConnected of its PeerConnection, in peers or not, and
\* clears the session
PeerCloseQueued ==
  /\ \E c \in closing :
       /\ closing' = closing \ {c}
       /\ peers' = [k \in DOMAIN peers |->
                      IF peers[k].object = c.object
                      THEN [peers[k] EXCEPT !.isConnected = FALSE] ELSE peers[k]]
       /\ LET r == clearSession(heap, sessionStates, c.sessionId)
          IN  /\ heap' = r.heap
              /\ sessionStates' = r.sessionStates
              /\ cleared' = IF r.threw \/ c.sessionId \notin Live THEN cleared
                            ELSE cleared \cup {c.sessionId}
              /\ last' = Called("close", c.sessionId, Outcome(r))
  /\ UNCHANGED <<net, params, sent, got>>
  /\ UNCHANGED <<wire, cteVars>>

\* peer.destroy() followed by clearSession, as disconnect and shutdown call
\* them on the PeerConnection under key k of ps: 'close' is emitted at once
\* or queued (the simple-peer versions differ) unless the peer was destroyed
\* before; at once, the handler runs inside destroy().
destroyAndClear(h, ss, ps, cl, k, queued) ==
  LET p == ps[k]
      emits == ~p.destroyed
      handler == IF emits /\ ~queued
                 THEN clearSession(h, ss, p.sessionId)
                 ELSE [threw |-> FALSE, heap |-> h, sessionStates |-> ss]
      ps1 == [ps EXCEPT ![k].destroyed = TRUE,
                        ![k].isConnected = IF emits /\ ~queued THEN FALSE ELSE @]
      cl1 == IF emits /\ queued THEN cl \cup {[sessionId |-> p.sessionId, object |-> p.object]} ELSE cl
      r == clearSession(handler.heap, handler.sessionStates, p.sessionId)
  IN  IF handler.threw
      THEN [threw |-> TRUE, heap |-> handler.heap,
            sessionStates |-> handler.sessionStates, peers |-> ps1, closing |-> cl1]
      ELSE [threw |-> r.threw, heap |-> r.heap, sessionStates |-> r.sessionStates,
            peers |-> ps1, closing |-> cl1]

\* disconnect(peerPublicKey): destroy, then clearSession, then peers.delete
Disconnect ==
  /\ \E k \in PeerKeys, queued \in BOOLEAN :
       IF k \notin DOMAIN peers
       THEN /\ queued
            /\ UNCHANGED <<heap, sessionStates, cleared, peers, closing, last>>
       ELSE LET sessionId == peers[k].sessionId
                r == destroyAndClear(heap, sessionStates, peers, closing, k, queued)
            IN  /\ ~peers[k].destroyed \/ queued
                /\ heap' = r.heap
                /\ sessionStates' = r.sessionStates
                /\ closing' = r.closing
                /\ peers' = IF r.threw THEN r.peers ELSE Without(peers, k)
                /\ cleared' = cleared \cup (Live \ DOMAIN r.sessionStates)
                /\ last' = Called("disconnect", sessionId, Outcome(r))
  /\ UNCHANGED <<net, params, sent, got>>
  /\ UNCHANGED <<wire, cteVars>>

\* the keys of peers in the order of peers.values(): that of insertion
RECURSIVE InsertionOrder(_, _)
InsertionOrder(ps, ks) ==
  IF ks = {} THEN <<>>
  ELSE LET k == CHOOSE x \in ks : \A y \in ks : ps[x].object <= ps[y].object
       IN  <<k>> \o InsertionOrder(ps, ks \ {k})

\* the loop of shutdown over the peers ks: destroy, then clearSession
RECURSIVE shutdownPeers(_, _, _, _, _, _)
shutdownPeers(h, ss, ps, cl, ks, queued) ==
  IF Len(ks) = 0
  THEN [threw |-> FALSE, heap |-> h, sessionStates |-> ss, peers |-> ps, closing |-> cl]
  ELSE LET r == destroyAndClear(h, ss, ps, cl, Head(ks), queued)
       IN  IF r.threw THEN r
           ELSE shutdownPeers(r.heap, r.sessionStates, r.peers, r.closing, Tail(ks), queued)

\* shutdown(): every peer destroyed and its session cleared, then
\* peers.clear() and emergencyPanic()
Shutdown ==
  /\ \E queued \in BOOLEAN :
       LET loop == shutdownPeers(heap, sessionStates, peers, closing,
                                 InsertionOrder(peers, DOMAIN peers), queued)
           r == IF loop.threw THEN loop
                ELSE emergencyPanic(loop.heap, loop.sessionStates)
       IN  /\ queued \/ \E k \in DOMAIN peers : ~peers[k].destroyed
           /\ heap' = r.heap
           /\ sessionStates' = r.sessionStates
           /\ cleared' = cleared \cup (Live \ DOMAIN r.sessionStates)
           /\ peers' = IF loop.threw THEN loop.peers ELSE << >>
           /\ closing' = loop.closing
           /\ last' = IF heap' = heap /\ sessionStates' = sessionStates
                         /\ peers' = peers /\ closing' = closing
                      THEN last
                      ELSE Called("shutdown", UnknownId, Outcome(r))
  /\ UNCHANGED <<net, params, sent, got>>
  /\ UNCHANGED <<wire, cteVars>>

(* ---------------------- messages and dummy traffic --------------------- *)
\* Math.floor(Math.random() * 256) + 64: the shortest and the longest
DummyLengths == {64, 319}
\* the dummy messages generated so far
Dummies == Count(heap, 0, "dummyKey")

\* a mac taken over the three fields, as encryptMessage takes it
dummyMacWithKey(ciphertext, nonce, ephemeralPublicKey) ==
  SliceTo(sha256(Concat(<<ciphertext, nonce, ephemeralPublicKey>>)), 16)
\* sha256(new Uint8Array([...ciphertext, ...nonce])).slice(0, 16)
dummyMac(ciphertext, nonce, ephemeralPublicKey) ==
  SliceTo(sha256(Concat(<<ciphertext, nonce>>)), 16)

\* generateDummyTraffic(), the n-th call, drawing a plaintext of length bytes
generateDummyTraffic(h, n, length) ==
  LET dummyKey == randomBytes(Draw(0, "dummyKey", n), 32)
      dummyPlaintext == randomBytes(Draw(0, "dummyText", n), length)
      nonce == randomBytes(Draw(0, "dummyNonce", n), 12)
      ciphertext == aeadEncrypt(dummyKey, nonce, dummyPlaintext)
      ephemeralPublicKey == randomBytes(Draw(0, "dummyEphemeral", n), 32)
      keyAddr == Addr(0, "dummyKey", n)
      textAddr == Addr(0, "dummyPlaintext", n)
      h1 == Ext(Ext(h, keyAddr, Buf(dummyKey)), textAddr, Buf(dummyPlaintext))
  IN  [heap |-> secureZero(secureZero(h1, keyAddr).heap, textAddr).heap,
       msg |-> [ciphertext |-> ciphertext, nonce |-> nonce,
                ephemeralPublicKey |-> ephemeralPublicKey,
                mac |-> dummyMac(ciphertext, nonce, ephemeralPublicKey)]]

\* SecureMessage
Secure(type, data) == [type |-> type, data |-> data]

\* JSON.stringify(secureMessage), as peer.send carries it and JSON.parse
\* of the receiver reads it: type as it is, every field of data an object
Stringify(message) ==
  [type |-> message.type, data |-> [f \in DOMAIN message.data |->
                                 B("object", -1, 0, <<message.data[f]>>)]]

\* the loop of generateDummy over the peers ks of ps: for each one that is
\* connected a generateDummyTraffic() call, which draws its own length
\* (lengths[i] for the i-th peer of ks), and a peer.send of its message; on a
\* peer that is connected and destroyed (its 'close' is queued) peer.send
\* returns without sending, and the loop goes on
RECURSIVE dummyToEach(_, _, _, _)
dummyToEach(h, ps, ks, lengths) ==
  IF Len(ks) = 0 THEN [heap |-> h, msgs |-> {}]
  ELSE IF ~ps[Head(ks)].isConnected THEN dummyToEach(h, ps, Tail(ks), Tail(lengths))
  ELSE LET r == generateDummyTraffic(h, Count(h, 0, "dummyKey") + 1, Head(lengths))
           rest == dummyToEach(r.heap, ps, Tail(ks), Tail(lengths))
       IN  [heap |-> rest.heap,
            msgs |-> IF ps[Head(ks)].destroyed THEN rest.msgs
                     ELSE {Stringify(Secure("dummy", r.msg))} \cup rest.msgs]

\* generateDummy, the timer callback of startDummyTrafficGeneration
GenerateDummy ==
  /\ Ops + Dummies < MaxOps
  /\ \E lengths \in [1..Cardinality(DOMAIN peers) -> DummyLengths] :
       LET r == dummyToEach(heap, peers, InsertionOrder(peers, DOMAIN peers), lengths)
       IN  /\ heap' = r.heap
           /\ wire' = wire \cup r.msgs
           /\ last' = IF r.heap = heap THEN last
                      ELSE Called("generateDummyTraffic", UnknownId, "ok")
  /\ UNCHANGED <<sessionStates, net, params, sent, got, cleared, peers, closing>>
  /\ UNCHANGED cteVars

\* sendMessage(peerPublicKey, message); peer.send, the last step, returns
\* without sending on a peer that is connected and destroyed ('close' queued)
SendMessage ==
  /\ Ops + Dummies < MaxOps
  /\ \E peerPublicKey \in PeerKeys, message \in Plaintexts :
       IF peerPublicKey \notin DOMAIN peers
       THEN UNCHANGED <<heap, sessionStates, net, last, sent, wire>>
       ELSE IF ~peers[peerPublicKey].isConnected
       THEN UNCHANGED <<heap, sessionStates, net, last, sent, wire>>
       ELSE LET sessionId == peers[peerPublicKey].sessionId
                r == encryptMessage(heap, sessionStates, sessionId, message,
                                    EncryptionsOf(heap, sessionId) + 1)
            IN  /\ EncryptCall(sessionId, message)
                /\ wire' = IF r.outcome = "ok" /\ ~peers[peerPublicKey].destroyed
                           THEN wire \cup {Stringify(Secure("encrypted", r.msg))}
                           ELSE wire
  /\ UNCHANGED <<params, got, cleared, peers, closing>>
  /\ UNCHANGED cteVars

\* the result of a message that is dropped
discarded(h, ss) ==
  [outcome |-> "discarded", heap |-> h, sessionStates |-> ss, text |-> <<>>,
   messageKey |-> Throws, keyBuffer |-> Null]
\* handleSecureMessage(message, peerConnection) for the peer's sessionId:
\* an error of decryptMessage is caught and logged
handleSecureMessage(h, ss, sessionId, message) ==
  IF message.type = "dummy" THEN discarded(h, ss)
  ELSE decryptMessage(h, ss, sessionId, message.data)

\* the bytes of the fields of a message read from the wire
BytesOf(data) == [f \in DOMAIN data |-> data[f].args[1]]
\* the same fields written as arrays of numbers
AsNumbers(data) == [f \in DOMAIN data |-> B("array", data[f].len, 0, <<data[f]>>)]
\* what a peer can send, after JSON.parse: the messages of this program as
\* it writes them, under either type, and the same messages, with and
\* without their ephemeralPublicKey, from a sender that writes the fields
\* as arrays of numbers
Incoming ==
  wire \cup { Secure("encrypted", m.data) : m \in wire }
       \cup { Secure("encrypted", AsNumbers(BytesOf(m.data))) : m \in wire }
       \cup { Secure("encrypted", AsNumbers(WithoutEphemeral(BytesOf(m.data)))) : m \in wire }

\* peer.on('data') with a message that parses: handleSecureMessage; the
\* handler does not look at isConnected, 'data' can come before 'connect'
HandleSecureMessage ==
  /\ Ops + Dummies < MaxOps
  /\ \E k \in DOMAIN peers, message \in Incoming :
       /\ ~peers[k].destroyed
       /\ LET sessionId == peers[k].sessionId
              r == handleSecureMessage(heap, sessionStates, sessionId, message)
          IN  IF r.heap = heap /\ r.sessionStates = sessionStates
              THEN UNCHANGED <<heap, sessionStates, last, got>>
              ELSE /\ heap' = r.heap
                   /\ sessionStates' = r.sessionStates
                   /\ got' = [got EXCEPT ![sessionId] = Append(@,
                        [msg |-> message.data, outcome |-> r.outcome, text |-> r.text,
                         messageKey |-> r.messageKey, keyBuffer |-> r.keyBuffer])]
                   /\ last' = [Called("decryptMessage", sessionId, r.outcome) EXCEPT
                                !.text = r.text]
  /\ UNCHANGED <<net, params, sent, cleared>>
  /\ UNCHANGED netVars
  /\ UNCHANGED cteVars

\* the life of sessions under direct calls of SecureCrypto
NextLife ==
  \/ InitializeSession \/ PerformDHRatchet
  \/ ClearSession \/ EmergencyPanic \/ CallerDetach \/ CallerSecureZero

SpecLife == Init /\ [][NextLife]_vars

\* the life of sessions under SecureP2PNetwork, next to direct calls
NextNet ==
  \/ InitializeSession \/ ClearSession \/ EmergencyPanic
  \/ CallerDetach
  \/ ConnectToPeer \/ HandleWebRTCSignal \/ PeerConnect
  \/ PeerClose \/ PeerCloseQueued \/ Disconnect \/ Shutdown

SpecNet == Init /\ [][NextNet]_vars

\* the traffic of SecureP2PNetwork with its peers
NextWire ==
  \/ ConnectToPeer \/ HandleWebRTCSignal \/ PeerConnect \/ PeerClose
  \/ SendMessage \/ HandleSecureMessage \/ GenerateDummy

SpecWire == Init /\ [][NextWire]_vars

NextMsg == InitializeSession \/ EncryptMessage \/ DecryptMessage \/ PerformDHRatchet

SpecMsg == Init /\ [][NextMsg]_vars

\* encryptMessage under every argument a caller can pass
NextEnc == InitializeSession \/ EncryptMessageAny \/ PerformDHRatchet

SpecEnc == Init /\ [][NextEnc]_vars

\* decryptMessage under every message a caller can pass
NextDec == InitializeSession \/ EncryptMessage \/ DecryptMessageAny

SpecDec == Init /\ [][NextDec]_vars

(* -------------------------- constantTimeEqual -------------------------- *)
\* a ^ b on the integers JavaScript converts the operands to
RECURSIVE Xor(_, _)
Xor(a, b) ==
  IF a = 0 /\ b = 0 THEN 0
  ELSE (((a % 2) + (b % 2)) % 2) + 2 * Xor(a \div 2, b \div 2)
\* a | b
RECURSIVE Or(_, _)
Or(a, b) ==
  IF a = 0 /\ b = 0 THEN 0
  ELSE (IF a % 2 = 1 \/ b % 2 = 1 THEN 1 ELSE 0) + 2 * Or(a \div 2, b \div 2)
\* x[i] of an array: undefined (0 under ^) past the end
At(x, i) == IF i <= Len(x) THEN x[i] ELSE 0

\* a loop that keeps the last difference only (= for |=)
RECURSIVE xorLastOnly(_, _, _, _)
xorLastOnly(a, b, result, i) ==
  IF i > Len(a) THEN result
  ELSE xorLastOnly(a, b, Xor(At(a, i), At(b, i)), i + 1)
\* for (let i = 0; i < a.length; i++) result |= a[i] ^ b[i]
RECURSIVE xorAccumulate(_, _, _, _)
xorAccumulate(a, b, result, i) ==
  IF i > Len(a) THEN result
  ELSE xorAccumulate(a, b, Or(result, Xor(At(a, i), At(b, i))), i + 1)

\* constantTimeEqual(a, b) on byte arrays; sodiumThrows: sodium.memcmp
\* rejects its arguments, so that the catch block runs
constantTimeEqual(a, b, sodiumThrows) ==
  IF Len(a) # Len(b) THEN FALSE
  ELSE IF ~sodiumThrows THEN memcmp(a, b)
  ELSE xorAccumulate(a, b, 0, 1) = 0

ByteValues == {0, 1, 128, 255}
RECURSIVE ByteArrays(_)
ByteArrays(n) ==
  IF n = 0 THEN {<<>>}
  ELSE ByteArrays(n - 1)
       \cup { Append(x, v) : x \in { y \in ByteArrays(n - 1) : Len(y) = n - 1 },
                             v \in ByteValues }

InitCTE ==
  /\ InitCrypto
  /\ cteA \in ByteArrays(MaxLen)
  /\ cteB \in ByteArrays(MaxLen)
  /\ cteThrows \in BOOLEAN
  /\ cteResult = "none"

ConstantTimeEqual ==
  /\ cteResult = "none"
  /\ cteResult' = IF constantTimeEqual(cteA, cteB, cteThrows) THEN "true" ELSE "false"
  /\ UNCHANGED <<cteA, cteB, cteThrows>>
  /\ UNCHANGED <<heap, sessionStates, net, last, params, sent, got, cleared>>
  /\ UNCHANGED netVars

NextCTE == ConstantTimeEqual

SpecCTE == InitCTE /\ [][NextCTE]_vars

Next ==
  \/ InitializeSession \/ CallerSecureZero
  \/ EncryptMessage \/ DecryptMessage \/ PerformDHRatchet
  \/ EncryptMessageAny \/ DecryptMessageAny
  \/ ClearSession \/ EmergencyPanic \/ CallerDetach
  \/ ConnectToPeer \/ HandleWebRTCSignal \/ PeerConnect
  \/ PeerClose \/ PeerCloseQueued \/ Disconnect \/ Shutdown
  \/ SendMessage \/ HandleSecureMessage \/ GenerateDummy
  \/ ConstantTimeEqual

Spec == Init /\ [][Next]_vars

(* ============================== claims ================================= *)
\* a is sending-first and b is receiving-first, from the same shared secret,
\* b having been given a's ratchet public key; neither has ratcheted
SessionPair(a, b) ==
  /\ params[a].their = Null
  /\ params[b].their # Null
  /\ params[a].sharedSecret = params[b].sharedSecret
  /\ params[b].theirKey = params[a].ourPublicKey
  /\ RatchetsOf(heap, a) = 0 /\ RatchetsOf(heap, b) = 0
\* b was given a's messages, in the order a produced them
InOrder(a, b) ==
  /\ Len(got[b]) <= Len(sent[a])
  /\ \A i \in 1..Len(got[b]) : got[b][i].msg = sent[a][i].msg

\* C1: when a sending-first session A and a receiving-first session B share
\* the secret and B decrypts A's messages in the order A encrypted them,
\* B's i-th result is A's i-th plaintext.
C1_RoundTripInOrder ==
  \A a \in DOMAIN params, b \in DOMAIN params :
    (SessionPair(a, b) /\ InOrder(a, b)) =>
      \A i \in 1..Len(got[b]) :
        got[b][i].outcome = "ok" /\ got[b][i].text = sent[a][i].plaintext

\* C2: a message that differs from one produced by encryptMessage in one
\* byte of one field is rejected by every live session; no session ever
\* returned a plaintext for such a message.
C2_TamperRejected ==
  /\ \A id \in Live, m \in net, f \in Fields :
       decryptMessage(heap, sessionStates, id, Tamper(m, f)).outcome
         \in {"MAC verification failed", "invalid tag"}
  /\ \A id \in DOMAIN got : \A i \in 1..Len(got[id]) :
       (\E m \in net, f \in Fields : got[id][i].msg = Tamper(m, f))
         => got[id][i].outcome # "ok"
\* a live session accepts a genuine message and rejects each tampering of it
C2_Witness ==
  \E id \in Live, m \in net :
    /\ decryptMessage(heap, sessionStates, id, m).outcome = "ok"
    /\ \A f \in Fields :
         decryptMessage(heap, sessionStates, id, Tamper(m, f)).outcome # "ok"

C6_RatchetStep ==
  [][ \A id \in Live :
        (/\ last'.op = "performDHRatchet" /\ last'.id = id /\ last'.outcome = "ok"
         /\ RatchetsOf(heap', id) = RatchetsOf(heap, id) + 1)
        => LET old == sessionStates[id]
               new == sessionStates'[id]
               secret == heap'[new.sendingRatchetKey.secretKey].val
               dh == getSharedSecret(secret, heap[last'.arg].val)
               root == deriveKeys(heap[old.rootKey].val, dh, "RootKeyNext")
           IN  /\ heap'[new.rootKey].val = root
               /\ heap'[new.sendingChainKey].val = deriveKeys(root, Zero32, "ChainKey")
               /\ secret \notin { heap[a].val : a \in DOMAIN heap }
               /\ secret.tag = "rand"
               /\ heap'[new.sendingRatchetKey.publicKey].val = getPublicKey(secret)
               /\ new.receivingRatchetKey = last'.arg
               /\ new.messageNumber = 0
               /\ heap'[new.rootKey].val # heap[old.rootKey].val
               /\ heap'[new.sendingChainKey].val # heap[old.sendingChainKey].val
               /\ secret # heap[old.sendingRatchetKey.secretKey].val
               /\ heap'[new.sendingRatchetKey.publicKey].val
                    # heap[old.sendingRatchetKey.publicKey].val
    ]_vars
\* a session that had encrypted has ratcheted
C6_Witness ==
  /\ last.op = "performDHRatchet" /\ last.outcome = "ok"
  /\ last.id \in Live
  /\ Len(sent[last.id]) >= 1
  /\ sessionStates[last.id].messageNumber = 0

\* the buffers of a session that hold secrets
secretBuffers(session) ==
  {session.sendingChainKey, session.receivingChainKey, session.rootKey,
   session.sendingRatchetKey.secretKey}
  \cup (IF session.receivingRatchetKey # Null THEN {session.receivingRatchetKey}
        ELSE {})
\* buffer a of h holds zeros only
AllZero(h, a) == h[a].val.tag = "zero" /\ ~h[a].detached

\* C4: when clearSession(id) on a live session returns, the buffers the
\* session held for its chain keys, root key, ratchet secret key and
\* receiving ratchet key are all-zero and id is out of the registry; the
\* wipes come first, so a clearSession that fails has removed nothing.
C4_ClearWipesThenRemoves ==
  [][ \A id \in Live :
        (last'.op = "clearSession" /\ last'.id = id) =>
          /\ last'.outcome = "ok" =>
               /\ \A a \in secretBuffers(sessionStates[id]) :
                    AllZero(heap', a) /\ heap'[a].val.len = heap[a].val.len
               /\ id \notin DOMAIN sessionStates'
          /\ last'.outcome # "ok" =>
               /\ id \in DOMAIN sessionStates'
               /\ sessionStates'[id] = sessionStates[id]
    ]_vars
\* a session that had ratcheted and held a peer's key was cleared
C4_Witness ==
  /\ last.op = "clearSession" /\ last.outcome = "ok"
  /\ last.id \in cleared /\ last.id \notin Live
  /\ params[last.id].their # Null
  /\ RatchetsOf(heap, last.id) = 1

\* the outcome of each operation on identifier id in the current state
OutcomesOn(id) ==
  << encryptMessage(heap, sessionStates, id, <<104, 105>>, 1).outcome,
     decryptMessage(heap, sessionStates, id, NoMsg).outcome,
     performDHRatchet(heap, sessionStates, id, KeyPairOf(2).publicKey, 1).outcome >>

\* C5: every operation on a cleared identifier fails with an error of its
\* own, different from the one for an identifier that never existed, and the
\* identifier is never live again.
C5_ClearedErrorDistinct ==
  \A id \in cleared :
    /\ id \notin Live
    /\ \A i \in 1..3 : /\ OutcomesOn(id)[i] # "ok"
                       /\ OutcomesOn(id)[i] # OutcomesOn(UnknownId)[i]

\* C7: when emergencyPanic returns, the registry is empty and every secret
\* buffer of every session that was live is all-zero; a second call right
\* after it raises nothing and leaves the registry empty.
C7_PanicEmptiesAndRepeats ==
  [][ (last'.op = "emergencyPanic" /\ last'.outcome = "ok") =>
        /\ sessionStates' = << >>
        /\ \A id \in Live : \A a \in secretBuffers(sessionStates[id]) :
             AllZero(heap', a)
        /\ emergencyPanic(heap', sessionStates')
             = [threw |-> FALSE, heap |-> heap', sessionStates |-> << >>]
    ]_vars
\* emergencyPanic returned with two sessions live before it
C7_Witness ==
  /\ last.op = "emergencyPanic" /\ last.outcome = "ok"
  /\ Cardinality(cleared) >= 2
  /\ Live = {}

\* C8: emergencyPanic never raises; whatever a wipe does, it leaves the
\* registry empty and no session partly wiped.
C8_PanicNeverRaises ==
  [][ last'.op = "emergencyPanic" =>
        /\ last'.outcome = "ok"
        /\ sessionStates' = << >>
    ]_vars

\* C9: clearSession on an identifier that is absent or already cleared
\* raises nothing and changes nothing; clearing twice is clearing once, and
\* the clearSession that disconnect makes after the 'close' handler has
\* cleared the session is a no-op.
C9_ClearIdempotent ==
  [][ /\ \A id \in Known \ Live :
           clearSession(heap, sessionStates, id)
             = [threw |-> FALSE, heap |-> heap, sessionStates |-> sessionStates]
      /\ \A id \in Live :
           LET once == clearSession(heap, sessionStates, id)
           IN  ~once.threw =>
                 clearSession(once.heap, once.sessionStates, id) = once
      /\ \A id \in Live :
           (last'.op = "disconnect" /\ last'.id = id /\ last'.outcome = "ok") =>
             LET once == clearSession(heap, sessionStates, id)
             IN  heap' = once.heap /\ sessionStates' = once.sessionStates
    ]_vars
\* disconnect has destroyed a peer and cleared its session
C9_Witness ==
  /\ last.op = "disconnect" /\ last.outcome = "ok"
  /\ last.id \in cleared
  /\ closing = {}

\* C10: constantTimeEqual(a, b) is true exactly when a and b have the same
\* length and the same byte at every index, on the libsodium path and on
\* the XOR-accumulate fallback alike.
C10_ConstantTimeEqual ==
  /\ cteResult # "none" => (cteResult = "true") = (cteA = cteB)
  /\ constantTimeEqual(cteA, cteB, TRUE) = constantTimeEqual(cteA, cteB, FALSE)
\* the fallback has compared two equal arrays of more than one byte
C10_Witness ==
  /\ cteResult = "true" /\ cteThrows
  /\ Len(cteA) >= 2

\* the encryptMessage calls of session id since its latest ratchet (or since
\* initializeSession), by the histories snt and heap h
SinceRatchet(h, snt, id) ==
  Cardinality({ i \in 1..Len(snt[id]) : snt[id][i].epoch = RatchetsOf(h, id) })

\* C11: a session's messageNumber is the number of encryptMessage calls made
\* on it since initializeSession or its latest performDHRatchet: a new
\* session has 0, encryptMessage adds exactly 1, performDHRatchet sets 0,
\* decryptMessage leaves it, and nothing else changes it.
C11_MessageNumberCounts ==
  [][ \A id \in DOMAIN sessionStates' :
        LET after == sessionStates'[id].messageNumber
        IN  /\ after = SinceRatchet(heap', sent', id)
            /\ id \notin Live => after = 0
            /\ id \in Live =>
                 LET before == sessionStates[id].messageNumber
                     encrypted == Len(sent'[id]) = Len(sent[id]) + 1
                     ratcheted_ == RatchetsOf(heap', id) = RatchetsOf(heap, id) + 1
                     decrypted == Len(got'[id]) = Len(got[id]) + 1
                 IN  /\ encrypted => after = before + 1
                     /\ ratcheted_ => after = 0
                     /\ decrypted => after = before
                     /\ after # before => encrypted \/ ratcheted_
    ]_vars
\* a session has encrypted, ratcheted and encrypted again
C11_Witness ==
  \E id \in Live :
    /\ RatchetsOf(heap, id) = 1
    /\ Len(sent[id]) = 2
    /\ sessionStates[id].messageNumber = 1

\* C12: every successful initializeSession registers under an identifier
\* that is not in the registry at that moment, so that no live session is
\* overwritten: the live sessions grow by exactly that one, and every
\* session that was live keeps its state and its buffers.
C12_FreshIdentifier ==
  [][ (last'.op = "initializeSession" /\ sessionStates' # sessionStates) =>
        LET id == last'.id
        IN  /\ id \notin Live
            /\ id \in DOMAIN sessionStates'
            /\ DOMAIN sessionStates' = Live \cup {id}
            /\ Cardinality(DOMAIN sessionStates') = Cardinality(Live) + 1
            /\ \A j \in Live : sessionStates'[j] = sessionStates[j]
            /\ \A a \in DOMAIN heap : heap'[a] = heap[a]
    ]_vars
\* an initializeSession has registered a session next to a live one
C12_Witness ==
  /\ last.op = "initializeSession" /\ last.outcome = "ok"
  /\ last.id \in Live
  /\ Cardinality(Live) = 2

\* C13: encryptMessage, decryptMessage and performDHRatchet on an identifier
\* that is not in the registry fail with 'Session not found' without
\* generating or deriving a key, and leave the heap, the registry and so
\* every live session as they were.
C13_NotFoundChangesNothing ==
  \A id \in Known \ Live :
    /\ \A plaintext \in Plaintexts :
         LET r == encryptMessage(heap, sessionStates, id, plaintext, 1)
         IN  /\ r.outcome = "Session not found"
             /\ r.heap = heap /\ r.sessionStates = sessionStates
             /\ r.msg = NoMsg /\ r.messageKey = Throws
    /\ \A m \in Offered \cup {NoMsg} :
         LET r == decryptMessage(heap, sessionStates, id, m)
         IN  /\ r.outcome = "Session not found"
             /\ r.heap = heap /\ r.sessionStates = sessionStates
             /\ r.messageKey = Throws
    /\ \A their \in {KeyPairOf(2).publicKey} \cup LowOrderKeys :
         LET r == performDHRatchet(heap, sessionStates, id, their, 1)
         IN  /\ r.outcome = "Session not found"
             /\ r.heap = heap /\ r.sessionStates = sessionStates
\* a never used and a cleared identifier are looked up next to a live
\* session that has ratcheted
C13_Witness ==
  /\ cleared # {}
  /\ \E id \in Live : RatchetsOf(heap, id) = 1
  /\ \A id \in cleared \cup {UnknownId} :
       decryptMessage(heap, sessionStates, id, NoMsg).outcome = "Session not found"

(* ---------------------- what a set of values gives --------------------- *)
\* The tags of values that are computed from other values or drawn.
Computed == {"rand", "secret", "hkdf", "sha256", "slice", "concat", "pub", "dh",
             "x25519", "aead", "flip", "throws"}
\* t can be computed from the values of K and constants by the functions of
\* the code, each of hkdf, sha256 and X25519 being one-way: a key pair gives
\* its public key, a secret key and a public key give their shared secret.
RECURSIVE Derivable(_, _)
Derivable(t, K) ==
  \/ t \in K
  \/ t.tag \notin Computed
  \/ /\ t.tag \in {"hkdf", "sha256", "slice", "concat", "pub", "aead", "flip", "x25519"}
     /\ \A i \in 1..Len(t.args) : Derivable(t.args[i], K)
  \/ /\ t.tag = "dh"
     /\ \/ Derivable(t.args[1], K) /\ Derivable(getPublicKey(t.args[2]), K)
        \/ Derivable(t.args[2], K) /\ Derivable(getPublicKey(t.args[1]), K)
\* value x occurs in t
RECURSIVE DependsOn(_, _)
DependsOn(t, x) ==
  t = x \/ \E i \in 1..Len(t.args) : DependsOn(t.args[i], x)

\* what goes over the wire or is public by its role: the messages, the
\* public keys of key pairs, the keys received from peers
PublicValues(h, ss, msgs) ==
  UNION { {m.ciphertext, m.nonce, m.ephemeralPublicKey, m.mac} : m \in msgs }
  \cup { h[a].val : a \in { x \in DOMAIN h : x[2] \in {"publicKey", "ratchetPublicKey",
                                                         "lowOrder"} } }
  \cup { h[ss[id].receivingRatchetKey].val :
           id \in { x \in DOMAIN ss : ss[x].receivingRatchetKey # Null } }

\* C14: after performDHRatchet on a session, the message key of its next
\* encryptMessage and the one of its next decryptMessage (and so every later
\* one) cannot be computed from the two chain keys the session held before
\* the ratchet and the public values; each depends on the fresh DH secret.
C14_PostCompromiseSecurity ==
  [][ \A id \in Live :
        (/\ last'.op = "performDHRatchet" /\ last'.id = id /\ last'.outcome = "ok"
         /\ RatchetsOf(heap', id) = RatchetsOf(heap, id) + 1)
        => LET old == sessionStates[id]
               new == sessionStates'[id]
               compromised == {heap[old.sendingChainKey].val,
                               heap[old.receivingChainKey].val}
                              \cup PublicValues(heap', sessionStates', net)
               fresh == heap'[new.sendingRatchetKey.secretKey].val
               nextKeys == {messageKeyOf(heap'[new.sendingChainKey].val),
                            messageKeyOf(heap'[new.receivingChainKey].val)}
           IN  \A k \in nextKeys :
                 /\ ~Derivable(k, compromised)
                 /\ DependsOn(k, fresh)
    ]_vars

\* the values now stored in the fields of a session
storedValues(h, session) ==
  { h[a].val : a \in {session.rootKey, session.sendingChainKey,
                      session.receivingChainKey, session.sendingRatchetKey.secretKey,
                      session.sendingRatchetKey.publicKey}
                     \cup (IF session.receivingRatchetKey # Null
                           THEN {session.receivingRatchetKey} ELSE {}) }
\* C15: in every reachable state no message key that a session has used
\* (in encryptMessage, or in a decryptMessage call that returned a plaintext)
\* can be computed from the values now stored in the session's fields.
C15_ForwardSecrecy ==
  \A id \in Live :
    \A k \in { sent[id][i].messageKey : i \in 1..Len(sent[id]) }
             \cup { got[id][i].messageKey :
                      i \in { j \in 1..Len(got[id]) : got[id][j].outcome = "ok" } } :
      ~Derivable(k, storedValues(heap, sessionStates[id]))

\* the chain a sends on started from the chain key b receives on, and
\* neither has ratcheted: b decrypts a's messages when given them in order
Matching(a, b) ==
  /\ a # b
  /\ RatchetsOf(heap, a) = 0 /\ RatchetsOf(heap, b) = 0
  /\ heap[Addr(a, "sendingChainKey", 1)].val = heap[Addr(b, "receivingChainKey", 1)].val

\* C16: when a has encrypted m1 then m2 and the matching session b is given
\* m2 before m1, both decryptMessage calls return the original plaintexts.
C16_OutOfOrderDelivery ==
  \A a \in DOMAIN params, b \in DOMAIN params :
    (/\ Matching(a, b)
     /\ Len(sent[a]) >= 2 /\ Len(got[b]) >= 1
     /\ got[b][1].msg = sent[a][2].msg)
    => /\ got[b][1].outcome = "ok"
       /\ got[b][1].text = sent[a][2].plaintext
       /\ (Len(got[b]) >= 2 /\ got[b][2].msg = sent[a][1].msg)
            => /\ got[b][2].outcome = "ok"
               /\ got[b][2].text = sent[a][1].plaintext

C18_InvalidPeerKeyRejected ==
  \A low \in CallerBuffers :
    (~heap[low].detached /\ (low \in LowOrderKeys \/ SmallOrder(heap[low].val))) =>
       /\ ~heap[KeyPairOf(2).secretKey].detached =>
            LET r == initializeSession(heap, sessionStates, NextSessionId, SharedSecret,
                                       KeyPairOf(2), low)
            IN  /\ r.outcome = "Invalid private or public key received"
                /\ r.sessionStates = sessionStates
                /\ r.heap = heap
       /\ \A id \in Live :
            LET r == performDHRatchet(heap, sessionStates, id, low,
                                      RatchetsOf(heap, id) + 1)
            IN  /\ r.outcome = "Invalid private or public key received"
                /\ r.sessionStates = sessionStates
                /\ r.heap = heap
\* a session that holds a peer's key and has ratcheted is offered the
\* point u = 1, of order 4
C18_Witness ==
  \E id \in Live :
    /\ params[id].their # Null
    /\ RatchetsOf(heap, id) = 1
    /\ heap[sessionStates[id].rootKey].val.tag = "hkdf"
    /\ heap[Addr(0, "lowOrder", 1)].val # Zero32
    /\ performDHRatchet(heap, sessionStates, id, Addr(0, "lowOrder", 1), 2).outcome # "ok"

\* C19: when the mac of a message is not the first 16 bytes of the hash of
\* its ciphertext, nonce and ephemeralPublicKey, decryptMessage fails with
\* 'MAC verification failed', derives no message key and leaves the
\* receivingChainKey, the session and every buffer as they were. (A message
\* whose bytes are only grouped anew, or forged with its mac computed anew,
\* has the mac of its bytes and is no case of this.)
C19_MacCheckedFirst ==
  \A id \in Live, m \in Deliverable :
    m.mac # ExpectedMac(m) =>
      LET r == decryptMessage(heap, sessionStates, id, m)
      IN  /\ r.outcome = "MAC verification failed"
          /\ r.messageKey = Throws
          /\ r.sessionStates = sessionStates
          /\ r.heap = heap
\* a session that has already decrypted is given a message whose mac was
\* changed and one whose ciphertext was changed
C19_Witness ==
  \E id \in Live, m \in net :
    /\ Len(got[id]) >= 1
    /\ Tamper(m, "mac").mac # ExpectedMac(Tamper(m, "mac"))
    /\ decryptMessage(heap, sessionStates, id, Tamper(m, "mac")).outcome
         = "MAC verification failed"
    /\ decryptMessage(heap, sessionStates, id, Tamper(m, "ciphertext")).outcome
         = "MAC verification failed"

\* C20: whenever decryptMessage fails, on the mac or on the AEAD tag, for a
\* genuine, an altered or a forged message, the session and every buffer
\* are as before the call, so that each genuine message is decrypted
\* afterwards as it would have been before.
C20_RejectedChangesNothing ==
  \A id \in Live :
    \A m \in Offered :
      LET r == decryptMessage(heap, sessionStates, id, m)
      IN  r.outcome # "ok" =>
            /\ r.sessionStates = sessionStates
            /\ r.heap = heap
            /\ \A g \in net :
                 decryptMessage(r.heap, r.sessionStates, id, g).outcome
                   = decryptMessage(heap, sessionStates, id, g).outcome

\* C21: the buffer of every message key that encryptMessage or decryptMessage
\* derived is all-zero once the call is over, whether the call returned or
\* failed (as when the AEAD decryption rejects the ciphertext).
C21_MessageKeyZeroed ==
  /\ \A id \in DOMAIN sent : \A i \in 1..Len(sent[id]) :
       AllZero(heap, sent[id][i].keyBuffer)
  /\ \A id \in DOMAIN got : \A i \in 1..Len(got[id]) :
       AllZero(heap, got[id][i].keyBuffer)

\* C22: over the whole registry no two encryptMessage calls, in one session
\* or in two, encrypt under the same message key.
C22_MessageKeyUsedOnce ==
  LET encryptCalls == UNION { { <<id, i>> : i \in 1..Len(sent[id]) } : id \in DOMAIN sent }
  IN  \A c \in encryptCalls, d \in encryptCalls :
        c # d => sent[c[1]][c[2]].messageKey # sent[d[1]][d[2]].messageKey

buffersOf(session) ==
  [sendingChainKey |-> session.sendingChainKey,
   receivingChainKey |-> session.receivingChainKey,
   rootKey |-> session.rootKey,
   secretKey |-> session.sendingRatchetKey.secretKey,
   publicKey |-> session.sendingRatchetKey.publicKey,
   receivingRatchetKey |-> session.receivingRatchetKey]
BufferFields == DOMAIN buffersOf([sendingChainKey |-> Null, receivingChainKey |-> Null,
                                  rootKey |-> Null, receivingRatchetKey |-> Null,
                                  sendingRatchetKey |-> [secretKey |-> Null,
                                                         publicKey |-> Null]])
\* in a step, field f of session id refers to the same buffer as before and
\* the buffer holds what it held
Kept(id, f) ==
  LET a == buffersOf(sessionStates[id])[f]
  IN  /\ buffersOf(sessionStates'[id])[f] = a
      /\ a # Null => heap'[a] = heap[a]

\* C24: encryptMessage changes only sendingChainKey and messageNumber of its
\* session, decryptMessage only receivingChainKey; performDHRatchet leaves
\* receivingChainKey and previousChainLength as they were; and
\* previousChainLength is 0 in every state.
C24_OperationFrame ==
  [][ /\ \A id \in DOMAIN sessionStates' : sessionStates'[id].previousChainLength = 0
      /\ \A id \in Live \cap DOMAIN sessionStates' :
           LET old == sessionStates[id]
               new == sessionStates'[id]
               encrypted == Len(sent'[id]) = Len(sent[id]) + 1
               decrypted == Len(got'[id]) = Len(got[id]) + 1
               stepped == last'.op = "performDHRatchet" /\ last'.id = id /\ last' # last
           IN  /\ encrypted =>
                    /\ \A f \in BufferFields \ {"sendingChainKey"} : Kept(id, f)
                    /\ new.previousChainLength = old.previousChainLength
               /\ decrypted =>
                    /\ \A f \in BufferFields \ {"receivingChainKey"} : Kept(id, f)
                    /\ new.messageNumber = old.messageNumber
                    /\ new.previousChainLength = old.previousChainLength
               /\ stepped =>
                    /\ Kept(id, "receivingChainKey")
                    /\ new.previousChainLength = old.previousChainLength
    ]_vars
\* a session has encrypted, decrypted and ratcheted
C24_Witness ==
  \E id \in Live :
    /\ Len(sent[id]) >= 1
    /\ Len(got[id]) >= 1
    /\ RatchetsOf(heap, id) = 1
    /\ sessionStates[id].previousChainLength = 0

\* C25: encryptMessage, decryptMessage, performDHRatchet and clearSession on
\* one session leave every field and every key buffer of each other live
\* session as they were, also when the two were initialized with the same
\* KeyPair object or one holds the other's public key buffer as its
\* receivingRatchetKey.
C25_CrossSessionIndependence ==
  [][ (/\ last' # last
       /\ last'.op \in {"encryptMessage", "decryptMessage", "performDHRatchet",
                        "clearSession"})
      => \A other \in Live \ {last'.id} :
           /\ other \in DOMAIN sessionStates'
           /\ sessionStates'[other] = sessionStates[other]
           /\ \A f \in BufferFields : Kept(other, f)
    ]_vars

\* C26: whenever an operation makes a secret field of a session (a chain
\* key, the root key, the ratchet secret key) refer to a new buffer, the
\* buffer that held the superseded value is all-zero when the operation
\* returns.
C26_SupersededZeroed ==
  [][ \A id \in Live \cap DOMAIN sessionStates' :
        \A f \in {"sendingChainKey", "receivingChainKey", "rootKey", "secretKey"} :
          LET a == buffersOf(sessionStates[id])[f]
          IN  buffersOf(sessionStates'[id])[f] # a => AllZero(heap', a)
    ]_vars

\* C27: no encryptMessage or decryptMessage call derives its message key
\* from the 32 zero bytes that initializeSession stores as a placeholder.
C27_PlaceholderNeverUsed ==
  /\ \A id \in DOMAIN sent : \A i \in 1..Len(sent[id]) :
       /\ sent[id][i].chainKeyBefore # Zero32
       /\ sent[id][i].messageKey # messageKeyOf(Zero32)
  /\ \A id \in DOMAIN got : \A i \in 1..Len(got[id]) :
       got[id][i].messageKey # messageKeyOf(Zero32)

\* C29: a message that fails the mac check and a message that passes it and
\* fails the AEAD tag get the same outcome from decryptMessage: the same
\* error, and the same session and buffers left behind.
C29_NoDecryptionOracle ==
  \A id \in Live :
    \A m1 \in Offered, m2 \in Offered :
      (/\ m1.mac # ExpectedMac(m1)
       /\ m2.mac = ExpectedMac(m2)
       /\ aeadDecrypt(messageKeyOf(heap[sessionStates[id].receivingChainKey].val),
                      m2.nonce, m2.ciphertext) = Throws) =>
        LET r1 == decryptMessage(heap, sessionStates, id, m1)
            r2 == decryptMessage(heap, sessionStates, id, m2)
        IN  /\ r1.outcome = r2.outcome
            /\ r1.sessionStates = r2.sessionStates
            /\ r1.heap = r2.heap

\* the root key of a session initialized with the 32 zero bytes that
\* connectToPeer and handleWebRTCSignal pass for the shared secret
PlaceholderRootKey == deriveKeys(Zero32, Zero32, "RootKey")

\* C28: a session that has encrypted or decrypted a message is keyed by an
\* exchanged secret: its root key is not the one of the all-zero placeholder
\* secret, and no message key it encrypted under comes from that root key.
C28_KeyExchangeFirst ==
  \A id \in Live :
    (Len(sent[id]) > 0 \/ Len(got[id]) > 0) =>
      /\ heap[sessionStates[id].rootKey].val # PlaceholderRootKey
      /\ \A i \in 1..Len(sent[id]) :
           ~DependsOn(sent[id][i].messageKey, PlaceholderRootKey)

\* the dummy messages on the wire
DummiesSent == { m \in wire : m.type = "dummy" }

\* the message of a dummy d under the forms its fields can have: the
\* Uint8Arrays of generateDummyTraffic, arrays of numbers, and the objects
\* that JSON makes of them
DummyForms(d) == {BytesOf(d.data), AsNumbers(BytesOf(d.data)), d.data}

\* C30: generateDummyTraffic changes no buffer of any session, and a dummy
\* message changes no session that receives it: handleSecureMessage drops it
\* by its type, and decryptMessage, given it all the same, rejects its mac
\* before the receiving chain moves (as read from the wire by JSON.parse it
\* is rejected earlier still, its ciphertext not being iterable).
C30_DummyNeverTouchesRatchet ==
  /\ \A length \in DummyLengths :
       LET r == generateDummyTraffic(heap, Dummies + 1, length)
       IN  \A a \in DOMAIN heap : r.heap[a] = heap[a]
  /\ \A d \in DummiesSent : \A id \in Live :
       /\ handleSecureMessage(heap, sessionStates, id, d) = discarded(heap, sessionStates)
       /\ \A data \in DummyForms(d) :
            LET r == handleSecureMessage(heap, sessionStates, id, Secure("encrypted", data))
            IN  /\ r.outcome = IF data = d.data
                               THEN "encryptedMessage.ciphertext is not iterable"
                               ELSE "MAC verification failed"
                /\ r.messageKey = Throws
                /\ r.heap = heap
                /\ r.sessionStates = sessionStates
  /\ \A id \in DOMAIN got : \A i \in 1..Len(got[id]) :
       \A d \in DummiesSent : got[id][i].msg \notin DummyForms(d)
\* a connected peer whose session has sent and received a message has been
\* sent a dummy message
C30_Witness ==
  /\ DummiesSent # {}
  /\ \E k \in DOMAIN peers :
       /\ peers[k].isConnected
       /\ peers[k].sessionId \in Live
       /\ Len(sent[peers[k].sessionId]) >= 1
       /\ Len(got[peers[k].sessionId]) >= 1

====
